---- MODULE Spec2Model ----
(***************************************************************************)
(* The MCTP Router of platform/impls/baremetal/mctp/src/lib.rs as a state  *)
(* machine: the two handle tables, the cookie codec, and every public      *)
(* operation of Router as one action.  The reassembly / fragmentation      *)
(* engine (mctp_estack::Stack) is an external crate: each of its calls is  *)
(* a nondeterministic choice over the outcomes its interface allows, and   *)
(* its deferred queue is the array of retained messages that               *)
(* get_deferred_bycookie searches.                                         *)
(***************************************************************************)
EXTENDS Integers, Sequences, FiniteSets, TLC

(* Table capacities.  lib.rs:7-8 set both to 64; the model scales them     *)
(* down, every formula below is stated in terms of the names.              *)
MAX_LISTENER_HANDLES == 2
MAX_REQUEST_HANDLES == 2
(* Capacity of the engine's deferred queue (its reassembler slots).        *)
NUM_RECEIVE == 2
(* mctp_estack::config::MAX_PAYLOAD, the size of send's scratch buffer.    *)
MAX_PAYLOAD == 3

VARIABLES
    own_eid,    \* self.stack.eid()
    listeners,  \* Router::listeners, index -> Option<MsgType>
    requests,   \* Router::requests, index -> Option<ReqHandle>
    deferred,   \* the engine's retained messages, slot -> Option<message>
    exchange,   \* request index -> the tag of the exchange outstanding on the
                \* handle by the state machine of spec 4.5 (history only: no
                \* operation reads it)
    call        \* the last Router operation: its name, argument, result, the
                \* return point it left by, the deferred slot it retained a
                \* message in, the cancel_flow calls it made, and what a
                \* send gave to the fragmenter and the transport

vars == <<own_eid, listeners, requests, deferred, exchange, call>>

----------------------------------------------------------------------------
(* Option<T> and Result<T>                                                 *)
None == << >>
Some(x) == << x >>
is_some(o) == o # None
is_none(o) == o = None
unwrap(o) == o[1]

Ok(v) == [kind |-> "Ok", val |-> Some(v)]
OkUnit == [kind |-> "Ok", val |-> None]
Err(e) == [kind |-> "Err", val |-> e]
Panic == [kind |-> "Panic", val |-> None]
IsOk(r) == r.kind = "Ok"
IsErr(r, e) == r.kind = "Err" /\ r.val = e

----------------------------------------------------------------------------
(* Input domains                                                           *)
EIDs == {42, 112}
(* One more message type than there are listener slots, so that the        *)
(* listener table can be filled with distinct types and one is left over.  *)
MsgTypes == 0 .. MAX_LISTENER_HANDLES
TagValues == {0, 1}
ListenerIndices == 0 .. (MAX_LISTENER_HANDLES - 1)
RequestIndices == 0 .. (MAX_REQUEST_HANDLES - 1)
(* AppCookie values an application can pass: both ranges and one value     *)
(* past them.                                                              *)
Cookies == 0 .. (MAX_LISTENER_HANDLES + MAX_REQUEST_HANDLES)
RxSlots == 0 .. (NUM_RECEIVE - 1)

(* The reassembled messages Router::inbound is given, as it reads them:    *)
(* request-style messages of every type, carrying no cookie or a request's *)
(* cookie, and response-style messages carrying no cookie or any cookie.   *)
Messages ==
    [dest : EIDs, tag : {[kind |-> "Owned", tv |-> 0]}, typ : MsgTypes,
     cookie : {None, Some(MAX_LISTENER_HANDLES)}]
    \cup
    [dest : EIDs, tag : {[kind |-> "Unowned", tv |-> 0]}, typ : {0},
     cookie : {None} \cup {Some(c) : c \in Cookies}]

----------------------------------------------------------------------------
(* Cookie codec, lib.rs:229-277                                            *)
AppCookie(i) == i

listener_cookie_from_index(i) == AppCookie(i)

(* Variant: the request encoder forgets the listener range.                *)
req_cookie_without_offset(i) == AppCookie(i)

req_cookie_from_index(i) == AppCookie(i + MAX_LISTENER_HANDLES)

(* Variant: the listener decoder counts the index from the wrong end.      *)
listeners_index_reversed(cookie) ==
    IF cookie < MAX_LISTENER_HANDLES
    THEN Some(MAX_LISTENER_HANDLES - 1 - cookie)
    ELSE None

listeners_index_from_cookie(cookie) ==
    IF cookie < MAX_LISTENER_HANDLES THEN Some(cookie) ELSE None

(* Variant: the request decoder forgets to subtract the listener range.    *)
requests_index_keeps_offset(cookie) ==
    IF cookie >= MAX_LISTENER_HANDLES
       /\ cookie < (MAX_LISTENER_HANDLES + MAX_REQUEST_HANDLES)
    THEN Some(cookie)
    ELSE None

requests_index_from_cookie(cookie) ==
    IF cookie >= MAX_LISTENER_HANDLES
       /\ cookie < (MAX_LISTENER_HANDLES + MAX_REQUEST_HANDLES)
    THEN Some(cookie - MAX_LISTENER_HANDLES)
    ELSE None

cookie_is_listener(cookie) == cookie < MAX_LISTENER_HANDLES

----------------------------------------------------------------------------
(* ReqHandle, lib.rs:11-27                                                 *)
ReqHandle_new(eid) == [eid |-> eid, last_tag |-> None]

(* Variant: the scan starts at index 1.                                    *)
first_none_from_one(table) ==
    LET free == {i \in DOMAIN table : i >= 1 /\ is_none(table[i])}
    IN  IF free = {} THEN None
        ELSE Some(CHOOSE i \in free : \A j \in free : i <= j)

(* The first index of a table (a function over 0..n-1) whose slot is free, *)
(* as the enumerate() scans of req and listener find it.                   *)
first_none(table) ==
    LET free == {i \in DOMAIN table : is_none(table[i])}
    IN  IF free = {} THEN None
        ELSE Some(CHOOSE i \in free : \A j \in free : i <= j)

----------------------------------------------------------------------------
(* call.flow is the flow a send's start_send opened in the engine, by the  *)
(* cookie it carries (None when it opened none).                           *)
(* What a send did with the engine and the transport: the payload it gave *)
(* to frag.fragment (None when it never called it), the number of packets  *)
(* the fragmenter produced and the number of those handed to the outbound  *)
(* transport.                                                              *)
Sent(payload, packets, outbound) ==
    [payload |-> payload, packets |-> packets, outbound |-> outbound]

(* The record of one Router operation.                                    *)
Call(op, arg, res, at, kept, cancels) ==
    [op |-> op, arg |-> arg, res |-> res, at |-> at, kept |-> kept,
     cancels |-> cancels, sent |-> Sent(None, 0, 0), flow |-> None]

(* The record of a send.                                                   *)
SendCall(arg, res, at, sent) ==
    [Call("send", arg, res, at, None, << >>) EXCEPT !.sent = sent]

(* Router::new, lib.rs:45-56                                               *)
Init ==
    /\ own_eid \in EIDs
    /\ listeners = [i \in ListenerIndices |-> None]
    /\ requests = [i \in RequestIndices |-> None]
    /\ deferred = [s \in RxSlots |-> None]
    /\ exchange = [i \in RequestIndices |-> None]
    /\ call = Call("new", None, OkUnit, "new", None, << >>)

(* A panic ends the program: no operation runs after it.                   *)
Running == call.res.kind # "Panic"

(* Router::req, lib.rs:111-119                                             *)
req(eid) ==
    /\ Running
    /\ LET slot == first_none(requests)
       IN  IF is_some(slot)
           THEN /\ requests' = [requests EXCEPT
                                  ![unwrap(slot)] = Some(ReqHandle_new(eid))]
                /\ call' = Call("req", eid,
                                Ok(req_cookie_from_index(unwrap(slot))),
                                "bound", None, << >>)
           ELSE /\ requests' = requests
                /\ call' = Call("req", eid, Err("NoSpace"), "full", None, << >>)
    /\ UNCHANGED <<own_eid, listeners, deferred, exchange>>

(* Variant: only the first slot is compared.                               *)
type_in_use_first_slot(typ) == listeners[0] = Some(typ)

(* Variant: the duplicate check is missing.                                *)
type_in_use_unchecked(typ) == FALSE

(* lib.rs:123, whether any listener slot holds typ                         *)
type_in_use(typ) == \E i \in DOMAIN listeners : listeners[i] = Some(typ)

(* Router::listener, lib.rs:122-133                                        *)
listener(typ) ==
    /\ Running
    /\ IF type_in_use(typ)
       THEN /\ listeners' = listeners
            /\ call' = Call("listener", typ, Err("AddrInUse"), "in_use",
                            None, << >>)
       ELSE LET slot == first_none(listeners)
            IN  IF is_some(slot)
                THEN /\ listeners' = [listeners EXCEPT
                                        ![unwrap(slot)] = Some(typ)]
                     /\ call' = Call("listener", typ,
                                     Ok(listener_cookie_from_index(unwrap(slot))),
                                     "bound", None, << >>)
                ELSE /\ listeners' = listeners
                     /\ call' = Call("listener", typ, Err("NoSpace"), "full",
                                     None, << >>)
    /\ UNCHANGED <<own_eid, requests, deferred, exchange>>

(* Variant: the result of take() is not checked.                           *)
bad_listener_index_only(idx) == is_none(idx)

(* lib.rs:204-206, the two ok_or(BadArgument) of the listener branch: the  *)
(* cookie decodes to no index, or take() finds the slot free.              *)
bad_listener(idx) == is_none(idx) \/ is_none(listeners[unwrap(idx)])

(* lib.rs:209-212, the same for the request branch                         *)
bad_request(idx) == is_none(idx) \/ is_none(requests[unwrap(idx)])

(* Router::unbind, lib.rs:202-222.  call.cancels lists the cancel_flow     *)
(* calls the operation made on the engine, as <<eid, tag value>>.          *)
unbind(cookie) ==
    /\ Running
    /\ IF cookie_is_listener(cookie)
       THEN /\ requests' = requests
            /\ LET idx == listeners_index_from_cookie(cookie)
               IN  IF bad_listener(idx)
                   THEN /\ listeners' = listeners
                        /\ call' = Call("unbind", cookie, Err("BadArgument"),
                                        "bad_listener", None, << >>)
                   ELSE /\ listeners' = [listeners EXCEPT ![unwrap(idx)] = None]
                        /\ call' = Call("unbind", cookie, OkUnit,
                                        "listener", None, << >>)
       ELSE /\ listeners' = listeners
            /\ LET idx == requests_index_from_cookie(cookie)
               IN  IF bad_request(idx)
                   THEN /\ requests' = requests
                        /\ call' = Call("unbind", cookie, Err("BadArgument"),
                                        "bad_request", None, << >>)
                   ELSE LET r == unwrap(requests[unwrap(idx)])
                        IN  /\ requests' = [requests EXCEPT ![unwrap(idx)] = None]
                            /\ call' = Call("unbind", cookie, OkUnit,
                                            "request", None,
                                            IF is_some(r.last_tag)
                                            THEN << <<r.eid, unwrap(r.last_tag).tv>> >>
                                            ELSE << >>)
    /\ exchange' = [i \in RequestIndices |->
                      IF is_none(requests'[i]) THEN None ELSE exchange[i]]
    /\ UNCHANGED <<own_eid, deferred>>

----------------------------------------------------------------------------
(* The engine, mctp_estack::Stack, as Router uses it.                      *)

(* What stack.receive(pkt) can return: an error, Ok(None) while the        *)
(* message is incomplete, or Ok(Some(msg)).                                *)
ReceiveResults ==
    {Err("InvalidInput"), Ok(None)} \cup {Ok(Some(m)) : m \in Messages}

(* msg.retain(): the message stays in the engine's slot until it is        *)
(* fetched.  Only its cookie is read again.                                *)
retain(slot, cookie) == [deferred EXCEPT ![slot] = Some([cookie |-> cookie])]

(* stack.get_deferred_bycookie(cookies): the slots holding a retained      *)
(* message whose cookie is one of cookies.                                 *)
get_deferred_bycookie(cookies) ==
    {s \in DOMAIN deferred :
        /\ is_some(deferred[s])
        /\ is_some(unwrap(deferred[s]).cookie)
        /\ unwrap(unwrap(deferred[s]).cookie) \in cookies}

----------------------------------------------------------------------------
(* Variant: the destination check is missing.                              *)
for_us_unchecked(msg) == TRUE

(* lib.rs:73, the destination is the Router's own identity                 *)
for_us(msg) == msg.dest = own_eid

(* Variant: the slot's occupancy is not checked.                           *)
request_bound_in_range(cookie) == is_some(requests_index_from_cookie(cookie))

(* lib.rs:82-83, the cookie names an occupied request slot                 *)
request_bound(cookie) ==
    LET i == requests_index_from_cookie(cookie)
    IN  is_some(i) /\ is_some(requests[unwrap(i)])

(* Variant: a request-style message is retained without set_cookie, under  *)
(* the cookie it carried.                                                  *)
route_keeps_cookie(msg) ==
    IF ~for_us(msg)
    THEN [at |-> "eid_mismatch", cookie |-> None]
    ELSE IF msg.tag.kind = "Unowned"
    THEN IF is_some(msg.cookie) /\ request_bound(unwrap(msg.cookie))
         THEN [at |-> "retained_request", cookie |-> msg.cookie]
         ELSE [at |-> "dropped_unowned", cookie |-> None]
    ELSE IF \E i \in DOMAIN listeners : listeners[i] = Some(msg.typ)
         THEN [at |-> "retained_listener", cookie |-> msg.cookie]
         ELSE [at |-> "dropped_owned", cookie |-> None]

(* Variant: a response-style message no request awaits falls through to    *)
(* the listener scan.                                                      *)
route_falls_through(msg) ==
    IF ~for_us(msg)
    THEN [at |-> "eid_mismatch", cookie |-> None]
    ELSE IF /\ msg.tag.kind = "Unowned"
            /\ is_some(msg.cookie) /\ request_bound(unwrap(msg.cookie))
    THEN [at |-> "retained_request", cookie |-> msg.cookie]
    ELSE LET hits == {i \in DOMAIN listeners : listeners[i] = Some(msg.typ)}
         IN  IF hits # {}
             THEN [at |-> "retained_listener",
                   cookie |-> Some(listener_cookie_from_index(
                                CHOOSE i \in hits : \A j \in hits : i <= j))]
             ELSE [at |-> "dropped_owned", cookie |-> None]

(* The decision of Router::inbound for a reassembled message, lib.rs:73-107:*)
(* the return point, and the cookie the message is retained under (None    *)
(* when it is dropped).                                                    *)
route(msg) ==
    IF ~for_us(msg)
    THEN [at |-> "eid_mismatch", cookie |-> None]
    ELSE IF msg.tag.kind = "Unowned"
    THEN IF is_some(msg.cookie) /\ request_bound(unwrap(msg.cookie))
         THEN [at |-> "retained_request", cookie |-> msg.cookie]
         ELSE [at |-> "dropped_unowned", cookie |-> None]
    ELSE LET hits == {i \in DOMAIN listeners : listeners[i] = Some(msg.typ)}
         IN  IF hits # {}
             THEN [at |-> "retained_listener",
                   cookie |-> Some(listener_cookie_from_index(
                                CHOOSE i \in hits : \A j \in hits : i <= j))]
             ELSE [at |-> "dropped_owned", cookie |-> None]

(* Spec 4.5, Bound(tag=T) -> Bound(no tag): a response carrying tag T is   *)
(* received and matched.                                                   *)
response_matched(msg) ==
    [i \in RequestIndices |->
        IF /\ requests_index_from_cookie(unwrap(msg.cookie)) = Some(i)
           /\ is_some(exchange[i])
           /\ unwrap(exchange[i]).tv = msg.tag.tv
        THEN None ELSE exchange[i]]

(* Router::inbound, lib.rs:67-108.  rx is what stack.receive(pkt) returned;*)
(* a complete message occupies a free slot of the engine, which it leaves  *)
(* again unless it is retained.                                            *)
inbound(rx) ==
    /\ Running
    /\ IF rx.kind = "Err"
       THEN /\ deferred' = deferred
            /\ call' = Call("inbound", None, rx, "receive_error", None, << >>)
       ELSE IF is_none(unwrap(rx.val))
       THEN /\ deferred' = deferred
            /\ call' = Call("inbound", None, OkUnit, "incomplete", None, << >>)
       ELSE LET msg == unwrap(unwrap(rx.val))
                slot == first_none(deferred)
                r == route(msg)
            IN  /\ is_some(slot)
                /\ IF is_some(r.cookie)
                   THEN /\ deferred' = retain(unwrap(slot), r.cookie)
                        /\ call' = Call("inbound", None, OkUnit, r.at, slot, << >>)
                   ELSE /\ deferred' = deferred
                        /\ call' = Call("inbound", None, OkUnit, r.at, None, << >>)
    /\ exchange' = IF call'.at = "retained_request"
                   THEN response_matched(unwrap(unwrap(rx.val)))
                   ELSE exchange
    /\ UNCHANGED <<own_eid, listeners, requests>>

(* Variant: recv asks for every cookie.                                    *)
recv_cookies_all(cookie) == Cookies

(* lib.rs:195, the cookies recv asks the engine for                        *)
recv_cookies(cookie) == {cookie}

(* Router::recv, lib.rs:194-196.  The message returned leaves the deferred *)
(* queue when the caller drops it.                                         *)
recv(cookie) ==
    /\ Running
    /\ LET hits == get_deferred_bycookie(recv_cookies(cookie))
       IN  IF hits = {}
           THEN /\ deferred' = deferred
                /\ call' = Call("recv", cookie, [kind |-> "None", val |-> None],
                                "none", None, << >>)
           ELSE \E s \in hits :
                /\ deferred' = [deferred EXCEPT ![s] = None]
                /\ call' = Call("recv", cookie,
                                [kind |-> "Some",
                                 val |-> [slot |-> s,
                                          cookie |-> unwrap(deferred[s]).cookie]],
                                "some", None, << >>)
    /\ UNCHANGED <<own_eid, listeners, requests, exchange>>

(* Router::update, lib.rs:59-62.  ok is whether stack.update succeeded.    *)
update(ok) ==
    /\ Running
    /\ call' = Call("update", None, IF ok THEN Ok(0) ELSE Err("InvalidInput"),
                    "update", None, << >>)
    /\ UNCHANGED <<own_eid, listeners, requests, deferred, exchange>>

(* Router::get_eid, lib.rs:136-138                                         *)
get_eid ==
    /\ Running
    /\ call' = Call("get_eid", None, Ok(own_eid), "get_eid", None, << >>)
    /\ UNCHANGED <<own_eid, listeners, requests, deferred, exchange>>

(* Router::set_eid, lib.rs:141-143.  ok is whether the engine accepted     *)
(* the identity.                                                           *)
set_eid(eid, ok) ==
    /\ Running
    /\ own_eid' = IF ok THEN eid ELSE own_eid
    /\ call' = Call("set_eid", eid, IF ok THEN OkUnit ELSE Err("InvalidInput"),
                    "set_eid", None, << >>)
    /\ UNCHANGED <<listeners, requests, deferred, exchange>>

----------------------------------------------------------------------------
(* Router::send, lib.rs:145-189                                            *)

(* lib.rs:165, the fold over the buffers' lengths                          *)
RECURSIVE total_len(_)
total_len(bufs) ==
    IF bufs = << >> THEN 0 ELSE Len(Head(bufs)) + total_len(Tail(bufs))

(* lib.rs:169-173, the copy loop from offset start on.  The destination    *)
(* is local_buffer[start..p.len()]: taking that slice panics when start is *)
(* past p.len(), and copy_from_slice panics when its length is not         *)
(* p.len().  Returns whether the loop panicked and the buffer it left.     *)
RECURSIVE copy_bufs(_, _, _)
copy_bufs(bufs, start, local_buffer) ==
    IF bufs = << >>
    THEN [panic |-> FALSE, buf |-> local_buffer]
    ELSE LET p == Head(bufs)
         IN  IF \/ start > Len(p)
                \/ Len(p) > Len(local_buffer)
                \/ Len(p) - start # Len(p)
             THEN [panic |-> TRUE, buf |-> local_buffer]
             ELSE copy_bufs(Tail(bufs), start + Len(p),
                            [i \in 1 .. Len(local_buffer) |->
                               IF i <= Len(p) THEN p[i] ELSE local_buffer[i]])

(* What stack.start_send can return for the tag the caller passed: an      *)
(* error, or a fragmenter carrying the caller's tag, or a newly allocated  *)
(* owned tag when the caller passed none.                                  *)
StartSendResults(tag) ==
    {Err("TagUnavailable")}
    \cup (IF is_some(tag) THEN {Ok(unwrap(tag))}
          ELSE {Ok([kind |-> "Owned", tv |-> tv]) : tv \in TagValues})

(* What one call of frag.fragment can return, lib.rs:181-187               *)
SendOutputs == {"Packet", "Complete", "Error"}

(* Spec 4.5, Bound(no tag) -> Bound(tag=T): an outbound send was issued on *)
(* this handle's cookie and returned T.                                    *)
send_returned(cookie, tag) ==
    [i \in RequestIndices |->
        IF requests_index_from_cookie(cookie) = Some(i) /\ is_some(requests[i])
        THEN Some(tag) ELSE exchange[i]]

(* lib.rs:162-175, the payload send gives to the fragmenter: the only      *)
(* buffer itself, or the first total_len bytes of the scratch buffer.      *)
payload_of(bufs) ==
    IF Len(bufs) = 1 THEN bufs[1]
    ELSE SubSeq(copy_bufs(bufs, 0, [i \in 1 .. MAX_PAYLOAD |-> 0]).buf,
                1, total_len(bufs))

(* lib.rs:156-158, the flow the call of stack.start_send has opened in the *)
(* engine when send goes on to look at the buffers: with no tag passed, a  *)
(* successful start_send allocates a tag and opens a flow carrying the     *)
(* cookie; nothing in send closes it again.                                *)
start_send_flow(tag, cookie, started) ==
    IF started.kind = "Ok" /\ is_none(tag) THEN Some(cookie) ELSE None

send(eid, typ, tag, ic, cookie, bufs, started, out) ==
    /\ Running
    /\ LET arg == [eid |-> eid, tag |-> tag, cookie |-> cookie, bufs |-> bufs]
           nothing == Sent(None, 0, 0)
           rec ==
           IF started.kind = "Err"
           THEN SendCall(arg, started, "start_send_error", nothing)
           ELSE IF Len(bufs) # 1 /\ total_len(bufs) > MAX_PAYLOAD
           THEN SendCall(arg, Err("NoSpace"), "no_space", nothing)
           ELSE IF Len(bufs) # 1
                   /\ copy_bufs(bufs, 0, [i \in 1 .. MAX_PAYLOAD |-> 0]).panic
           THEN SendCall(arg, Panic, "copy_panic", nothing)
           ELSE IF out = "Packet"
           THEN SendCall(arg, Panic, "todo_panic",
                         Sent(Some(payload_of(bufs)), 1, 0))
           ELSE IF out = "Complete"
           THEN SendCall(arg, Ok(unwrap(started.val)), "complete",
                         Sent(Some(payload_of(bufs)), 0, 0))
           ELSE SendCall(arg, Err("BadArgument"), "fragment_error",
                         Sent(Some(payload_of(bufs)), 0, 0))
       IN  call' = [rec EXCEPT
                      !.flow = start_send_flow(tag, cookie, started)]
    /\ exchange' = IF call'.at = "complete"
                   THEN send_returned(cookie, unwrap(started.val))
                   ELSE exchange
    /\ UNCHANGED <<own_eid, listeners, requests, deferred>>

(* The buffer lists of the sends: one buffer, and two non-empty buffers.   *)
BufLists == { << <<1>> >>, << <<1>>, <<2>> >> }

(* Every operation of Router.  Sends are issued on a listener's cookie.    *)
Next ==
    \/ \E eid \in EIDs : req(eid)
    \/ \E typ \in MsgTypes : listener(typ)
    \/ \E cookie \in Cookies : unbind(cookie)
    \/ \E rx \in ReceiveResults : inbound(rx)
    \/ \E cookie \in Cookies : recv(cookie)
    \/ \E ok \in BOOLEAN : update(ok)
    \/ get_eid
    \/ \E eid \in EIDs, ok \in BOOLEAN : set_eid(eid, ok)
    \/ \E bufs \in BufLists, started \in StartSendResults(None),
          out \in SendOutputs :
          send(112, 0, None, FALSE, 0, bufs, started, out)

Spec == Init /\ [][Next]_vars

(* The life of request handles: allocation, sends on their cookies, the    *)
(* responses, and release.                                                 *)
ResponseResults ==
    {Ok(Some(m)) : m \in {x \in Messages : x.tag.kind = "Unowned"}}

ExchangeNext ==
    \/ \E eid \in EIDs : req(eid)
    \/ \E cookie \in Cookies : unbind(cookie)
    \/ \E rx \in ResponseResults : inbound(rx)
    \/ \E cookie \in Cookies : recv(cookie)
    \/ \E cookie \in Cookies, bufs \in BufLists,
          started \in StartSendResults(None), out \in SendOutputs :
          send(112, 0, None, FALSE, cookie, bufs, started, out)

ExchangeSpec == Init /\ [][ExchangeNext]_vars

(* The sends of an application: the first cookie of each range, a tag of  *)
(* its own or none, and buffer lists of every shape: none, one, several,   *)
(* empty and non-empty buffers of differing lengths, totals below, at and  *)
(* above MAX_PAYLOAD.                                                      *)
RECURSIVE bytes(_)
bytes(n) == IF n = 0 THEN << >> ELSE Append(bytes(n - 1), n)
SendBufLists ==
    { << >>, << <<1>> >>, << bytes(MAX_PAYLOAD + 1) >>,
      << << >>, <<1, 2>> >>, << <<1>>, <<2>> >>, << <<1>>, << >> >>,
      << <<7>>, bytes(MAX_PAYLOAD - 1) >>, << <<7>>, bytes(MAX_PAYLOAD) >>,
      << << >>, bytes(MAX_PAYLOAD) >>, << << >>, bytes(MAX_PAYLOAD + 1) >>,
      << <<1>>, <<2>>, <<3>> >> }
SendCookies == {listener_cookie_from_index(0), req_cookie_from_index(0)}
SendTags == {None, Some([kind |-> "Unowned", tv |-> 1])}

SendNext ==
    \/ \E eid \in EIDs : req(eid)
    \/ \E cookie \in SendCookies, tag \in SendTags, bufs \in SendBufLists :
         \E started \in StartSendResults(tag), out \in SendOutputs :
            send(112, 0, tag, FALSE, cookie, bufs, started, out)

SendSpec == Init /\ [][SendNext]_vars
----------------------------------------------------------------------------
(* Properties                                                              *)

Occupied(table) == {i \in DOMAIN table : is_some(table[i])}
Lowest(S) == CHOOSE i \in S : \A j \in S : i <= j
L == MAX_LISTENER_HANDLES
R == MAX_REQUEST_HANDLES

(* C1: the cookie codec round-trips and partitions the cookie values: an   *)
(* index below L encodes to a cookie that decodes to it as a listener and  *)
(* is a listener cookie, an index below R likewise as a request and is not *)
(* a listener cookie; a value below L decodes only as a listener, a value  *)
(* in [L, L+R) only as a request, a value from L+R on as neither; and the  *)
(* cookie an allocation returns decodes to the slot it bound.              *)
C1_CookieCodec ==
    /\ \A i \in ListenerIndices :
        /\ listeners_index_from_cookie(listener_cookie_from_index(i)) = Some(i)
        /\ cookie_is_listener(listener_cookie_from_index(i))
    /\ \A i \in RequestIndices :
        /\ requests_index_from_cookie(req_cookie_from_index(i)) = Some(i)
        /\ ~cookie_is_listener(req_cookie_from_index(i))
    /\ \A v \in 0 .. (L + R + 2) :
        /\ v < L => /\ listeners_index_from_cookie(v) = Some(v)
                    /\ is_none(requests_index_from_cookie(v))
        /\ (v >= L /\ v < L + R) =>
                    /\ is_none(listeners_index_from_cookie(v))
                    /\ requests_index_from_cookie(v) = Some(v - L)
        /\ v >= L + R => /\ is_none(listeners_index_from_cookie(v))
                         /\ is_none(requests_index_from_cookie(v))
    /\ (call.op = "listener" /\ IsOk(call.res)) =>
          LET c == unwrap(call.res.val)
          IN  /\ cookie_is_listener(c)
              /\ is_some(listeners_index_from_cookie(c))
              /\ listeners[unwrap(listeners_index_from_cookie(c))] = Some(call.arg)
    /\ (call.op = "req" /\ IsOk(call.res)) =>
          LET c == unwrap(call.res.val)
          IN  /\ ~cookie_is_listener(c)
              /\ is_some(requests_index_from_cookie(c))
              /\ requests[unwrap(requests_index_from_cookie(c))]
                    = Some(ReqHandle_new(call.arg))

(* req has just returned the cookie of the last request slot while the     *)
(* last listener slot is bound too.                                        *)
C1_Witness ==
    /\ call.op = "req" /\ IsOk(call.res)
    /\ requests_index_from_cookie(unwrap(call.res.val)) = Some(R - 1)
    /\ is_some(listeners[L - 1])

(* C2: a listener call for a type no slot holds binds the lowest free slot *)
(* and returns its index as the cookie while a slot is free, so that from  *)
(* the empty table L calls with distinct types succeed; it fails with      *)
(* NoSpace exactly when all L slots are occupied; it succeeds again as     *)
(* soon as an unbind has freed a slot.                                     *)
C2_ListenerExhaustion ==
    [][(call'.op = "listener" /\ ~\E i \in ListenerIndices :
                                    listeners[i] = Some(call'.arg)) =>
        LET free == ListenerIndices \ Occupied(listeners)
        IN  IF free = {}
            THEN /\ IsErr(call'.res, "NoSpace")
                 /\ Cardinality(Occupied(listeners)) = L
                 /\ listeners' = listeners
            ELSE /\ call'.res = Ok(Lowest(free))
                 /\ listeners' = [listeners EXCEPT ![Lowest(free)] = Some(call'.arg)]
                 /\ Cardinality(Occupied(listeners')) =
                        Cardinality(Occupied(listeners)) + 1
      ]_vars

(* The (L+1)th allocation: listener has just failed with NoSpace on a full *)
(* table.                                                                  *)
C2_Witness ==
    /\ call.op = "listener" /\ IsErr(call.res, "NoSpace")
    /\ Occupied(listeners) = ListenerIndices

(* C3: listener(typ) called while a slot holds typ fails with AddrInUse,   *)
(* also when the table is full, and changes neither table.                 *)
C3_DuplicateListener ==
    [][(call'.op = "listener" /\ \E i \in ListenerIndices :
                                    listeners[i] = Some(call'.arg)) =>
        /\ IsErr(call'.res, "AddrInUse")
        /\ listeners' = listeners
        /\ requests' = requests
      ]_vars

(* listener has just failed with AddrInUse on a full table, the type being *)
(* held by the last slot.                                                  *)
C3_Witness ==
    /\ call.op = "listener" /\ IsErr(call.res, "AddrInUse")
    /\ Occupied(listeners) = ListenerIndices
    /\ listeners[L - 1] = Some(call.arg)

(* C4: no two occupied listener slots hold the same message type.          *)
C4_ListenerUnique ==
    \A i, j \in ListenerIndices :
        (i # j /\ is_some(listeners[i]) /\ is_some(listeners[j]))
            => listeners[i] # listeners[j]

(* Every listener slot is occupied, a request is bound and a message is    *)
(* retained, after an unbind.                                              *)
C4_Witness ==
    /\ Occupied(listeners) = ListenerIndices
    /\ Occupied(requests) # {}
    /\ Occupied(deferred) # {}
    /\ call.op = "listener" /\ call.res = Ok(0)

(* C5: unbind of a cookie that is L+R or more, or that decodes to a free   *)
(* slot, fails with BadArgument and changes neither table; so a second     *)
(* unbind of a released cookie fails.                                      *)
C5_BadCookieRelease ==
    [][(/\ call'.op = "unbind"
        /\ \/ call'.arg >= L + R
           \/ /\ call'.arg < L
              /\ is_none(listeners[call'.arg])
           \/ /\ call'.arg >= L /\ call'.arg < L + R
              /\ is_none(requests[call'.arg - L])) =>
        /\ IsErr(call'.res, "BadArgument")
        /\ listeners' = listeners
        /\ requests' = requests
      ]_vars

(* unbind has just failed on the cookie of listener slot 0, which was      *)
(* bound and released before: the slot after it is still occupied.         *)
C5_Witness ==
    /\ call.op = "unbind" /\ IsErr(call.res, "BadArgument")
    /\ call.arg = listener_cookie_from_index(0)
    /\ is_none(listeners[0]) /\ is_some(listeners[L - 1])

(* What C6 and C7 require of an inbound call that drops its message.       *)
DroppedQuietly ==
    /\ call'.res = OkUnit
    /\ call'.kept = None
    /\ deferred' = deferred
    /\ listeners' = listeners
    /\ requests' = requests

(* C6: inbound of a reassembled message whose destination differs from the *)
(* Router's own identity returns Ok(()), retains nothing and changes       *)
(* neither table, whatever the message's tag kind, type and cookie.        *)
C6_EidIsolation ==
    [][\/ call'.op # "inbound"
       \/ DroppedQuietly
       \/ \A m \in {x \in Messages : x.dest # own_eid} :
            ~inbound(Ok(Some(m)))
      ]_vars

(* inbound has just dropped a message for another identity while a         *)
(* listener and a request were bound that would have taken it.             *)
C6_Witness ==
    /\ call.op = "inbound" /\ call.at = "eid_mismatch"
    /\ Occupied(listeners) = ListenerIndices
    /\ is_some(requests[0])
    /\ \A s \in RxSlots : is_none(deferred[s])

(* A response-style message for the Router's own identity that no bound    *)
(* request handle awaits.                                                  *)
Unsolicited(m) ==
    /\ m.dest = own_eid
    /\ m.tag.kind = "Unowned"
    /\ \/ m.cookie = None
       \/ /\ m.cookie # None
          /\ \/ unwrap(m.cookie) < L
             \/ unwrap(m.cookie) >= L + R
             \/ /\ unwrap(m.cookie) >= L /\ unwrap(m.cookie) < L + R
                /\ is_none(requests[unwrap(m.cookie) - L])

(* C7: inbound of a response-style message addressed to the Router's own   *)
(* identity that carries no cookie, a cookie outside [L, L+R) or a cookie  *)
(* of a free request slot returns Ok(()), retains nothing and changes      *)
(* neither table.                                                          *)
C7_UnsolicitedResponse ==
    [][\/ call'.op # "inbound"
       \/ DroppedQuietly
       \/ \A m \in {x \in Messages : Unsolicited(x)} : ~inbound(Ok(Some(m)))
      ]_vars

(* inbound has just dropped a response while request slot 0 is free, the   *)
(* slot after it is bound and every listener slot is bound.                *)
C7_Witness ==
    /\ call.op = "inbound" /\ call.at = "dropped_unowned"
    /\ is_none(requests[0]) /\ is_some(requests[R - 1])
    /\ Occupied(listeners) = ListenerIndices

(* C9: req(dest) succeeds iff a request slot is free; it then binds the    *)
(* lowest free slot i to dest with an empty tag, returns the cookie L+i    *)
(* and changes no other slot; with every slot occupied it fails with       *)
(* NoSpace and changes nothing.  On a Router with empty tables the first   *)
(* listener gets cookie 0 and the first request cookie L.                  *)
C9_RequestAllocation ==
    [][/\ call'.op = "req" =>
            LET free == RequestIndices \ Occupied(requests)
            IN  /\ listeners' = listeners
                /\ IsOk(call'.res) <=> free # {}
                /\ IF free = {}
                   THEN /\ IsErr(call'.res, "NoSpace")
                        /\ requests' = requests
                   ELSE /\ call'.res = Ok(L + Lowest(free))
                        /\ requests' =
                            [requests EXCEPT ![Lowest(free)] =
                                Some([eid |-> call'.arg, last_tag |-> None])]
       /\ (/\ Occupied(listeners) = {} /\ Occupied(requests) = {}
           /\ call'.op = "listener") => call'.res = Ok(0)
       /\ (/\ Occupied(listeners) = {} /\ Occupied(requests) = {}
           /\ call'.op = "req") => call'.res = Ok(L)
      ]_vars

(* req has just bound the last request slot, after the slots before it     *)
(* and with a listener bound.                                              *)
C9_Witness ==
    /\ call.op = "req" /\ call.res = Ok(L + R - 1)
    /\ Occupied(requests) = RequestIndices
    /\ requests[R - 1] = Some([eid |-> call.arg, last_tag |-> None])
    /\ Occupied(listeners) # {}

PendingUnder(cookie) ==
    {s \in RxSlots : deferred[s] = Some([cookie |-> Some(cookie)])}

(* C10: recv(c) returns a message only if inbound retained it under        *)
(* exactly c and it was not returned before, and returns none when no such *)
(* message is pending: a message enters the queue only by an inbound call  *)
(* that retains it, keeps the cookie it was retained under, is returned    *)
(* only by recv of that cookie and leaves the queue when it is returned.   *)
C10_DemuxByCookie ==
    [][/\ call'.op = "recv" =>
            IF PendingUnder(call'.arg) = {}
            THEN /\ call'.res.kind = "None"
                 /\ deferred' = deferred
            ELSE /\ call'.res.kind = "Some"
                 /\ call'.res.val.slot \in PendingUnder(call'.arg)
                 /\ call'.res.val.cookie = Some(call'.arg)
                 /\ deferred' = [deferred EXCEPT ![call'.res.val.slot] = None]
       /\ \A s \in RxSlots :
            /\ (is_none(deferred[s]) /\ is_some(deferred'[s])) =>
                    /\ call'.op = "inbound"
                    /\ call'.kept = Some(s)
                    /\ is_some(unwrap(deferred'[s]).cookie)
            /\ (is_some(deferred[s]) /\ is_some(deferred'[s])) =>
                    deferred'[s] = deferred[s]
      ]_vars

(* recv has just returned a message while a message retained under another *)
(* cookie is still pending.                                                *)
C10_Witness ==
    /\ call.op = "recv" /\ call.res.kind = "Some"
    /\ \E s \in RxSlots :
        /\ is_some(deferred[s])
        /\ unwrap(deferred[s]).cookie # call.res.val.cookie

(* C11: no operation panics: every call of every public operation, with   *)
(* any cookie and any number and lengths of buffers, returns a value or an *)
(* error.                                                                  *)
C11_NoPanic == call.res.kind # "Panic"

(* C12: send with several buffers whose lengths sum to more than           *)
(* MAX_PAYLOAD returns NoSpace, the fragmenter having produced no packet   *)
(* and the transport having been handed none; a sum of exactly MAX_PAYLOAD *)
(* is not rejected with NoSpace.                                           *)
C12_OversizeSend ==
    [][(call'.op = "send" /\ Len(call'.arg.bufs) >= 2) =>
        /\ total_len(call'.arg.bufs) > MAX_PAYLOAD =>
                /\ IsErr(call'.res, "NoSpace")
                /\ call'.sent.packets = 0
                /\ call'.sent.outbound = 0
        /\ total_len(call'.arg.bufs) = MAX_PAYLOAD =>
                ~IsErr(call'.res, "NoSpace")
      ]_vars

(* C13: every packet the fragmenter produces during a send is handed to    *)
(* the outbound transport before send returns, and send then returns Ok    *)
(* with the engine's tag: a send that needs k packets makes k hand-offs.   *)
C13_PacketForwarding ==
    [][call'.op = "send" =>
        /\ call'.sent.outbound = call'.sent.packets
        /\ call'.sent.packets > 0 => IsOk(call'.res)
      ]_vars

(* The buffers one after the other.                                        *)
RECURSIVE concat(_)
concat(bufs) ==
    IF bufs = << >> THEN << >> ELSE Head(bufs) \o concat(Tail(bufs))

(* C18: for buffers b_1..b_n of total length at most MAX_PAYLOAD, the      *)
(* payload a send hands to the fragmenter, once start_send has succeeded,  *)
(* is the concatenation b_1 ++ ... ++ b_n; for n = 1 it is b_1.            *)
C18_ScatterGather ==
    [][(/\ call'.op = "send"
        /\ call'.at # "start_send_error"
        /\ Len(call'.arg.bufs) >= 1
        /\ total_len(call'.arg.bufs) <= MAX_PAYLOAD) =>
        call'.sent.payload = Some(concat(call'.arg.bufs))
      ]_vars

(* What C14 and C15 require of an inbound call that retains its message    *)
(* under a cookie: Ok(()), the message in a slot that was free, pending    *)
(* under that cookie, and nothing else changed.                            *)
RetainedUnder(cookie) ==
    /\ call'.res = OkUnit
    /\ listeners' = listeners
    /\ requests' = requests
    /\ \E s \in RxSlots :
        /\ call'.kept = Some(s)
        /\ is_none(deferred[s])
        /\ deferred' = [deferred EXCEPT ![s] = Some([cookie |-> Some(cookie)])]

(* The outcome C14 requires for a request-style message: it reads the      *)
(* listener table only.                                                    *)
ListenerRouted(m) ==
    LET hits == {i \in ListenerIndices : listeners[i] = Some(m.typ)}
    IN  IF hits = {} THEN DroppedQuietly
        ELSE RetainedUnder(listener_cookie_from_index(Lowest(hits)))

(* C14: inbound of a request-style message addressed to the Router's own   *)
(* identity retains it under the cookie of the lowest listener slot bound  *)
(* to its type, whatever cookie it carried, and does not retain it when no *)
(* listener slot is bound to its type; it returns Ok(()) in both cases and *)
(* the request table plays no part.                                        *)
C14_RequestStyleRouting ==
    [][\/ call'.op # "inbound"
       \/ \A m \in {x \in Messages : x.dest = own_eid /\ x.tag.kind = "Owned"} :
            ListenerRouted(m) \/ ~inbound(Ok(Some(m)))
      ]_vars

(* inbound has just retained a request-style message under the cookie of   *)
(* the last listener slot, while the request whose cookie such messages    *)
(* may carry is bound.                                                     *)
C14_Witness ==
    /\ call.op = "inbound" /\ call.at = "retained_listener"
    /\ deferred[unwrap(call.kept)] =
            Some([cookie |-> Some(listener_cookie_from_index(L - 1))])
    /\ is_some(requests[0])

(* The outcome C15 requires for a response-style message: it reads the     *)
(* request table only.                                                     *)
RequestRouted(m) ==
    IF /\ is_some(m.cookie)
       /\ unwrap(m.cookie) >= L /\ unwrap(m.cookie) < L + R
       /\ is_some(requests[unwrap(m.cookie) - L])
    THEN RetainedUnder(unwrap(m.cookie))
    ELSE DroppedQuietly

(* C15: inbound of a response-style message addressed to the Router's own  *)
(* identity whose cookie decodes to an occupied request slot retains it    *)
(* under that cookie, where recv of that cookie finds it; the listener     *)
(* table is not consulted, and a response with a listener-range cookie is  *)
(* not retained.                                                           *)
C15_ResponseStyleRouting ==
    [][\/ call'.op # "inbound"
       \/ \A m \in {x \in Messages : x.dest = own_eid /\ x.tag.kind = "Unowned"} :
            RequestRouted(m) \/ ~inbound(Ok(Some(m)))
      ]_vars

(* inbound has just retained a response under the cookie of the last       *)
(* request slot, while every listener slot is bound.                       *)
C15_Witness ==
    /\ call.op = "inbound" /\ call.at = "retained_request"
    /\ deferred[unwrap(call.kept)] =
            Some([cookie |-> Some(req_cookie_from_index(R - 1))])
    /\ Occupied(listeners) = ListenerIndices

(* C16: after a send on the cookie of an occupied request slot whose tag   *)
(* is empty has completed with tag T, that slot's last tag is T, and no    *)
(* other slot has changed.                                                 *)
C16_TagSetOnSend ==
    [][(/\ call'.op = "send" /\ IsOk(call'.res)
        /\ call'.arg.cookie >= L /\ call'.arg.cookie < L + R
        /\ is_some(requests[call'.arg.cookie - L])
        /\ is_none(unwrap(requests[call'.arg.cookie - L]).last_tag)) =>
        LET i == call'.arg.cookie - L
        IN  /\ requests' = [requests EXCEPT
                             ![i] = Some([unwrap(requests[i]) EXCEPT
                                            !.last_tag = call'.res.val])]
            /\ listeners' = listeners
      ]_vars

(* The response-style messages that answer the exchange outstanding on a   *)
(* request slot: addressed to the Router, carrying the slot's cookie and   *)
(* the tag value its send returned.                                        *)
Answers(m, i) ==
    /\ m.dest = own_eid
    /\ m.tag.kind = "Unowned"
    /\ m.cookie = Some(req_cookie_from_index(i))
    /\ is_some(requests[i])
    /\ is_some(exchange[i])
    /\ unwrap(exchange[i]).tv = m.tag.tv

C19_NoImplicitFree ==
    [][/\ call'.op \in {"inbound", "send", "recv", "update", "get_eid", "set_eid"}
            => (listeners' = listeners /\ requests' = requests)
       /\ \A i \in ListenerIndices :
            /\ (is_some(listeners[i]) /\ is_none(listeners'[i])) =>
                    /\ call'.op = "unbind" /\ call'.res = OkUnit
                    /\ call'.arg = listener_cookie_from_index(i)
            /\ (is_none(listeners[i]) /\ is_some(listeners'[i])) =>
                    /\ call'.op = "listener"
                    /\ call'.res = Ok(listener_cookie_from_index(i))
            /\ (is_some(listeners[i]) /\ is_some(listeners'[i])) =>
                    listeners'[i] = listeners[i]
       /\ \A i \in RequestIndices :
            /\ (is_some(requests[i]) /\ is_none(requests'[i])) =>
                    /\ call'.op = "unbind" /\ call'.res = OkUnit
                    /\ call'.arg = req_cookie_from_index(i)
            /\ (is_none(requests[i]) /\ is_some(requests'[i])) =>
                    /\ call'.op = "req"
                    /\ call'.res = Ok(req_cookie_from_index(i))
            /\ (is_some(requests[i]) /\ is_some(requests'[i])) =>
                    unwrap(requests'[i]).eid = unwrap(requests[i]).eid
      ]_vars

(* A send has just failed, after an unbind had freed listener slot 0,      *)
(* while the listener slot after it, a request and a retained message are  *)
(* still there.                                                            *)
C19_Witness ==
    /\ call.op = "send" /\ call.res.kind = "Err"
    /\ is_none(listeners[0]) /\ is_some(listeners[L - 1])
    /\ Occupied(requests) # {}
    /\ Occupied(deferred) # {}

(* C20: a message retained for a handle is not delivered to a later handle *)
(* with the same cookie value: recv(c) right after a successful unbind(c), *)
(* and recv(c) right after the listener or req call that returned c for a  *)
(* new handle, return none, no message having been retained for the new    *)
(* handle yet.                                                             *)
C20_NoStaleDelivery ==
    [][call'.op = "recv" =>
        /\ (call.op = "unbind" /\ call.res = OkUnit /\ call.arg = call'.arg)
                => call'.res.kind = "None"
        /\ (call.op \in {"listener", "req"} /\ IsOk(call.res)
                /\ unwrap(call.res.val) = call'.arg)
                => call'.res.kind = "None"
      ]_vars

(* C21: a send that returns NoSpace because its buffers' total length      *)
(* exceeds MAX_PAYLOAD leaves the engine as it was: start_send has         *)
(* allocated no tag and opened no flow carrying the caller's cookie.       *)
C21_FailedSendLeavesEngine ==
    [][(/\ call'.op = "send"
        /\ IsErr(call'.res, "NoSpace")
        /\ Len(call'.arg.bufs) # 1
        /\ total_len(call'.arg.bufs) > MAX_PAYLOAD) =>
        call'.flow = None
      ]_vars
====
